---- MODULE Spec2Model ----
(***************************************************************************)
(* Model of iris/etl/scm.py: the import of scm/meta/git data into IRIS.    *)
(*                                                                         *)
(* A string is a sequence of tokens: a token is a word or one of the       *)
(* separator characters " ", "/", "<", ">", "@", ":", "-".  A text is a    *)
(* sequence of lines, a line a record [code, value].                       *)
(***************************************************************************)
EXTENDS Integers, Sequences, FiniteSets, TLC

(***************************************************************************)
(* Bounds of the model.                                                    *)
(***************************************************************************)
MaxDomainBlocks == 2
MaxTreeBlocks == 1
MaxFragments == 2

(***************************************************************************)
(* Module constants of scm.py.                                             *)
(***************************************************************************)
MAPPING ==
  [A |-> "ARCHITECT", B |-> "BRANCH", C |-> "COMMENTS", D |-> "DOMAIN",
   I |-> "INTEGRATOR", L |-> "LICENSES", M |-> "MAINTAINER", N |-> "PARENT",
   O |-> "DESCRIPTION", R |-> "REVIEWER", T |-> "TREE PATH",
   SL |-> "SUBDOMAIN_LEADER"]

\* ROLES, in the order the loops over "ROLES & set(data.keys())" visit them
RoleOrder == <<"ARCHITECT", "INTEGRATOR", "MAINTAINER", "REVIEWER", "SUBDOMAIN_LEADER">>

ROLES == {RoleOrder[i] : i \in DOMAIN RoleOrder}

NONAME == <<"Uncategorized">>

\* party_choices() of iris.core.models.user
party_choices ==
  << <<"INTEL", <<"Intel">> >>, <<"SAMSUNG", <<"Samsung">> >>, <<"TIZEN", <<"Tizen">> >> >>

(***************************************************************************)
(* String helpers.                                                         *)
(***************************************************************************)
Range(s) == {s[i] : i \in DOMAIN s}

\* s[i..j] as Python slices do, empty when i > j
Slice(s, i, j) == IF i > j \/ j = 0 THEN <<>> ELSE SubSeq(s, i, j)

\* the least and the greatest element of a set of numbers, 0 for the empty set
Min0(S) == IF S = {} THEN 0 ELSE CHOOSE i \in S : \A j \in S : i <= j

Max0(S) == IF S = {} THEN 0 ELSE CHOOSE i \in S : \A j \in S : j <= i

\* position of the first occurrence of the token sequence sep in s, 0 if none
Find(s, sep) ==
  Min0({i \in 1..(Len(s) - Len(sep) + 1) : SubSeq(s, i, i + Len(sep) - 1) = sep})

\* s split at the occurrence of sep at position i, unsplit when i = 0
SplitAt(s, sep, i) ==
  IF i = 0 THEN <<s>>
  ELSE <<Slice(s, 1, i - 1), Slice(s, i + Len(sep), Len(s))>>

\* str.split(sep, 1)
Split1(s, sep) == SplitAt(s, sep, Find(s, sep))

\* str.strip(): the tokens between the first and the last that is not a blank
Strip(s) ==
  Slice(s, Min0({i \in DOMAIN s : s[i] /= " "}), Max0({i \in DOMAIN s : s[i] /= " "}))

\* sep.join(parts)
RECURSIVE Join(_, _)
Join(sep, parts) ==
  IF parts = <<>> THEN <<>>
  ELSE IF Len(parts) = 1 THEN parts[1]
  ELSE parts[1] \o sep \o Join(sep, Tail(parts))

\* str.lower(), token by token
LowerTok(t) ==
  CASE t = "A" -> "a"
    [] t = "X.COM" -> "x.com"
    [] t = "Intel.com" -> "intel.com"
    [] OTHER -> t

Lower(s) == [i \in DOMAIN s |-> LowerTok(s[i])]

\* str.endswith(suffix) for a suffix of one token
EndsWith(s, tok) == s /= <<>> /\ s[Len(s)] = tok

(***************************************************************************)
(* scm.py helpers.                                                         *)
(***************************************************************************)
StripAll(raw) == [i \in DOMAIN raw |-> Strip(raw[i])]

\* lines 52-56, parts being the stripped parts of line 51
parse_name_parts(parts) ==
  IF Len(parts) = 1
  THEN IF parts[1] /= <<>> THEN <<parts[1], NONAME>> ELSE <<NONAME, NONAME>>
  ELSE parts

parse_name(name) == parse_name_parts(StripAll(Split1(name, <<"/">>)))

rolename(role, name) == <<role, ":", " ">> \o name

subrolename(role, dname, sname) == <<role, ":", " ">> \o dname \o <<"-">> \o sname

(***************************************************************************)
(* iris.etl.parser: parse_blocks and UserCache.                            *)
(***************************************************************************)
EmptyDict == [x \in {} |-> x]

\* dict.get(key, default)
Get(data, key, default) == IF key \in DOMAIN data THEN data[key] ELSE default

\* One line of the text: st is [error, state, res, item, last].
parse_line(st, line, starter) ==
  IF st.error THEN st
  ELSE IF line.code = "" /\ line.value = <<>> THEN st
  ELSE IF line.code = ""
  THEN IF st.state = 0 THEN st
       ELSE IF st.last = MAPPING[starter]
       THEN [st EXCEPT !.item = (st.last :> (st.item[st.last] \o <<" ">> \o line.value)) @@ st.item]
       ELSE LET vals == st.item[st.last]
                n == Len(vals)
            IN [st EXCEPT !.item =
                  (st.last :> [vals EXCEPT ![n] = vals[n] \o <<" ">> \o line.value]) @@ st.item]
  ELSE IF line.code \notin DOMAIN MAPPING THEN [st EXCEPT !.error = TRUE]
  ELSE IF line.code = starter
  THEN [st EXCEPT !.state = 1,
                  !.res = IF st.state = 1 THEN Append(st.res, st.item) ELSE st.res,
                  !.item = MAPPING[starter] :> line.value,
                  !.last = MAPPING[starter]]
  ELSE IF st.state = 0 THEN st
  ELSE LET field == MAPPING[line.code]
       IN [st EXCEPT !.item = (field :> Append(Get(st.item, field, <<>>), line.value)) @@ st.item,
                     !.last = field]

RECURSIVE parse_lines(_, _, _, _)
parse_lines(text, i, starter, st) ==
  IF i > Len(text) THEN st
  ELSE parse_lines(text, i + 1, starter, parse_line(st, text[i], starter))

\* the result of the parser that ended in the state st
parse_result(st) ==
  [error |-> st.error,
   blocks |-> IF st.error THEN <<>>
              ELSE IF st.state = 1 THEN Append(st.res, st.item) ELSE st.res]

\* [error |-> the unrecognized-field-code error was raised, blocks |-> the blocks]
parse_blocks(text, starter) ==
  parse_result(parse_lines(text, 1, starter,
                           [error |-> FALSE, state |-> 0, res |-> <<>>,
                            item |-> EmptyDict, last |-> ""]))

\* the absence marker returned by UserCache.get
None == [email |-> <<>>, name |-> <<>>]

\* the identity of "name <email>", at being the position of "@" in email
identity_of(name, email, at) ==
  IF at < 2 \/ at = Len(email) THEN None
  ELSE [email |-> email,
        name |-> IF name = <<>> THEN Slice(email, 1, at - 1) ELSE name]

\* the identity of raw, lt being the position of "<" in it
identity_at(raw, lt, email) ==
  IF lt = 0 \/ raw[Len(raw)] /= ">" THEN None
  ELSE identity_of(Strip(Slice(raw, 1, lt - 1)), email, Find(email, <<"@">>))

identity_from(raw, lt) == identity_at(raw, lt, Slice(raw, lt + 1, Len(raw) - 1))

\* "Display Name <local@host>" -> identity record, None when malformed
parse_identity(raw) == identity_from(raw, Find(raw, <<"<">>))

UserCacheNew == [map |-> EmptyDict, users |-> <<>>]

\* register rec for raw; same is the position of the cached identity with its email
UserCache_register(uc, raw, rec, same) ==
  IF raw \in DOMAIN uc.map \/ rec = None THEN uc
  ELSE IF same /= 0
  THEN [uc EXCEPT !.map = (raw :> uc.users[same]) @@ uc.map]
  ELSE [map |-> (raw :> rec) @@ uc.map, users |-> Append(uc.users, rec)]

SameEmail(users, rec) ==
  Min0({i \in DOMAIN users : Lower(users[i].email) = Lower(rec.email)})

UserCache_found(uc, raw, rec) == UserCache_register(uc, raw, rec, SameEmail(uc.users, rec))

UserCache_update(uc, raw) == UserCache_found(uc, raw, parse_identity(raw))

UserCache_get(uc, raw) == Get(uc.map, raw, None)

UserCache_all(uc) == uc.users

(***************************************************************************)
(* build_user_cache                                                        *)
(***************************************************************************)
RECURSIVE Concat(_)
Concat(seqs) == IF seqs = <<>> THEN <<>> ELSE seqs[1] \o Concat(Tail(seqs))

\* the roles of "for role in ROLES & set(data.keys())"
PresentRoles(data) == SelectSeq(RoleOrder, LAMBDA r : r \in DOMAIN data)

\* the ustrings of the roles rs of one block, in loop order
StringsOf(data, rs) == Concat([i \in DOMAIN rs |-> data[rs[i]]])

\* the ustrings of the two inner loops over one block
RoleStrings(data) == StringsOf(data, PresentRoles(data))

BlocksRoleStrings(blocks) == Concat([i \in DOMAIN blocks |-> RoleStrings(blocks[i])])

\* build_user_cache without its second loop, over trees_data
build_user_cache_updates_domains(domains_data, trees_data) ==
  BlocksRoleStrings(domains_data)

\* the arguments of uc.update, in call order
build_user_cache_updates(domains_data, trees_data) ==
  BlocksRoleStrings(domains_data) \o BlocksRoleStrings(trees_data)

RECURSIVE UpdateAll(_, _)
UpdateAll(uc, ustrings) ==
  IF ustrings = <<>> THEN uc
  ELSE UpdateAll(UserCache_update(uc, Head(ustrings)), Tail(ustrings))

build_user_cache(domains_data, trees_data) ==
  UpdateAll(UserCacheNew, build_user_cache_updates(domains_data, trees_data))

(***************************************************************************)
(* The transform layer.                                                    *)
(***************************************************************************)
\* the pairs (key, user) of the users found
PairsOf(key, found) == [i \in DOMAIN found |-> <<key, found[i]>>]

\* role_users without the test "if user"
role_users_unchecked(key, ustrings, uc) ==
  PairsOf(key, [i \in DOMAIN ustrings |-> UserCache_get(uc, ustrings[i])])

\* "for ustring in data[role]: user = uc.get(ustring); if user: append((key, user))"
role_users(key, ustrings, uc) ==
  PairsOf(key, SelectSeq([i \in DOMAIN ustrings |-> UserCache_get(uc, ustrings[i])],
                         LAMBDA user : user /= None))

\* lines 100-110, for the names of line 99 and the roles rs of line 101
_trans_subdomain_named(data, uc, dname, sname, rs) ==
  [subdomains |-> << [name |-> sname, domain__name |-> dname] >>,
   subdomainroles |->
     [i \in DOMAIN rs |->
        [role |-> rs[i], subdomain__name |-> sname,
         subdomain__domain__name |-> dname,
         name |-> subrolename(rs[i], dname, sname)]],
   subdomainrole_users |->
     Concat([i \in DOMAIN rs |->
               role_users([role |-> rs[i], subdomain__name |-> sname,
                           subdomain__domain__name |-> dname],
                          data[rs[i]], uc)]),
   lookups |-> StringsOf(data, rs)]

_trans_subdomain_parts(data, uc, parts) ==
  _trans_subdomain_named(data, uc, parts[1], parts[2], PresentRoles(data))

_trans_subdomain(data, uc) == _trans_subdomain_parts(data, uc, parse_name(data["DOMAIN"]))

\* lines 115-123, for the name of line 114 and the roles rs of line 116
_trans_domain_named(data, uc, name, rs) ==
  [domains |-> << [name |-> name] >>,
   domainroles |->
     [i \in DOMAIN rs |->
        [role |-> rs[i], domain__name |-> name, name |-> rolename(rs[i], name)]],
   domainrole_users |->
     Concat([i \in DOMAIN rs |->
               role_users([role |-> rs[i], domain__name |-> name], data[rs[i]], uc)]),
   lookups |-> StringsOf(data, rs)]

_trans_domain(data, uc) == _trans_domain_named(data, uc, data["DOMAIN"], PresentRoles(data))

NoItems ==
  [domains |-> <<>>, domainroles |-> <<>>, domainrole_users |-> <<>>,
   subdomains |-> <<>>, subdomainroles |-> <<>>, subdomainrole_users |-> <<>>,
   lookups |-> <<>>]

\* the body of the loop of lines 125-130: what one block appends to the lists
_trans_item(data, uc) ==
  IF "PARENT" \in DOMAIN data
  THEN _trans_subdomain(data, uc) @@ NoItems
  ELSE _trans_domain(data, uc) @@ NoItems

\* lines 133-134
uncategorized_subdomains(domains) ==
  [i \in DOMAIN domains |-> [name |-> NONAME, domain__name |-> domains[i].name]]

\* the Uncategorized subdomains appended twice
all_subdomains_twice(subdomains, domains) ==
  subdomains \o uncategorized_subdomains(domains) \o uncategorized_subdomains(domains)

all_subdomains(subdomains, domains) == subdomains \o uncategorized_subdomains(domains)

\* the lists of lines 135-137, items being what the blocks appended
transform_domains_of(items, domains) ==
  [domains |-> domains,
   subdomains |-> all_subdomains(Concat([i \in DOMAIN items |-> items[i].subdomains]),
                                 domains),
   domainroles |-> Concat([i \in DOMAIN items |-> items[i].domainroles]),
   subdomainroles |-> Concat([i \in DOMAIN items |-> items[i].subdomainroles]),
   domainrole_users |-> Concat([i \in DOMAIN items |-> items[i].domainrole_users]),
   subdomainrole_users |-> Concat([i \in DOMAIN items |-> items[i].subdomainrole_users]),
   lookups |-> Concat([i \in DOMAIN items |-> items[i].lookups])]

\* domains starting as the empty list
all_domains_empty_start(items) == Concat([i \in DOMAIN items |-> items[i].domains])

\* line 93 and the domains the blocks append
all_domains(items) ==
  << [name |-> NONAME] >> \o Concat([i \in DOMAIN items |-> items[i].domains])

transform_domains_items(items) == transform_domains_of(items, all_domains(items))

transform_domains(domains_data, uc) ==
  transform_domains_items([i \in DOMAIN domains_data |-> _trans_item(domains_data[i], uc)])

Sep == <<" ", "/", " ">>

no_domain == Join(Sep, <<NONAME, NONAME>>)

\* line 151: "x or no_domain"
or_no_domain(first) == IF first /= <<>> THEN first ELSE no_domain

\* lines 152-153
with_subdomain(name) ==
  IF Find(name, Sep) = 0 THEN Join(Sep, <<name, NONAME>>) ELSE name

\* the (dname, sname) of one tree block, lines 151-154
tree_domain(data) ==
  Split1(with_subdomain(or_no_domain(Get(data, "DOMAIN", <<no_domain>>)[1])), Sep)

\* lines 155-169, for the values of lines 149, 154, 159 and 162
_trans_tree_named(data, uc, path, dn, lics, rs) ==
  [trees |-> << [gitpath |-> path, subdomain__name |-> dn[2],
                 subdomain__domain__name |-> dn[1]] >>,
   tree_licenses |->
     [i \in DOMAIN lics |-> << [gitpath |-> path], [shortname |-> lics[i]] >>],
   treeroles |->
     [i \in DOMAIN rs |->
        [role |-> rs[i], gittree__gitpath |-> path, name |-> rolename(rs[i], path)]],
   treerole_users |->
     Concat([i \in DOMAIN rs |->
               role_users([role |-> rs[i], gittree__gitpath |-> path], data[rs[i]], uc)]),
   lookups |-> StringsOf(data, rs)]

_trans_tree(data, uc) ==
  _trans_tree_named(data, uc, data["TREE PATH"], tree_domain(data),
                    Get(data, "LICENSES", <<>>), PresentRoles(data))

transform_trees_of(ts) ==
  [trees |-> Concat([i \in DOMAIN ts |-> ts[i].trees]),
   tree_licenses |-> Concat([i \in DOMAIN ts |-> ts[i].tree_licenses]),
   treeroles |-> Concat([i \in DOMAIN ts |-> ts[i].treeroles]),
   treerole_users |-> Concat([i \in DOMAIN ts |-> ts[i].treerole_users]),
   lookups |-> Concat([i \in DOMAIN ts |-> ts[i].lookups])]

transform_trees(trees_data, uc) ==
  transform_trees_of([i \in DOMAIN trees_data |-> _trans_tree(trees_data[i], uc)])

\* lines 182-187, suffix being the lower-cased host of line 181
party_of(suffix) ==
  IF EndsWith(suffix, "intel.com") THEN "INTEL"
  ELSE IF EndsWith(suffix, "samsung.com") THEN "SAMSUNG"
  ELSE "TIZEN"

user_party(user) == party_of(Lower(Split1(user.email, <<"@">>)[2]))

transform_parties(users) ==
  [parties |-> [i \in DOMAIN party_choices |->
                  [party |-> party_choices[i][1], name |-> party_choices[i][2]]],
   party_users |-> [i \in DOMAIN users |-> << [party |-> user_party(users[i])], users[i] >>]]

transform_users(ucusers) ==
  [i \in DOMAIN ucusers |->
     [username |-> ucusers[i].email, email |-> ucusers[i].email, name |-> ucusers[i].name]]

(***************************************************************************)
(* iris.etl.loader: the persisted store, sync_entity, sync_nnr and the     *)
(* deferred deletion closures.  A store is [tab, rel]: tab[T] is the set   *)
(* of rows of table T, rel[<<A, B>>] the set of edges <<key of A, key of   *)
(* B>> of the many-to-many relation owned by A.                            *)
(***************************************************************************)
Tables ==
  {"User", "Domain", "SubDomain", "DomainRole", "SubDomainRole", "GitTree",
   "GitTreeRole", "UserParty", "License"}

Rels ==
  {<<"DomainRole", "User">>, <<"SubDomainRole", "User">>, <<"GitTree", "License">>,
   <<"GitTreeRole", "User">>, <<"UserParty", "User">>}

\* the natural key of an entity, a row or a partial key dict of table T
NaturalKey(T, e) ==
  CASE T = "User" -> <<e.email>>
    [] T = "Domain" -> <<e.name>>
    [] T = "SubDomain" -> <<e.name, e.domain__name>>
    [] T = "DomainRole" -> <<e.role, e.domain__name>>
    [] T = "SubDomainRole" -> <<e.role, e.subdomain__name, e.subdomain__domain__name>>
    [] T = "GitTree" -> <<e.gitpath>>
    [] T = "GitTreeRole" -> <<e.role, e.gittree__gitpath>>
    [] T = "UserParty" -> <<e.party>>
    [] T = "License" -> <<e.shortname>>

\* the rows of parent tables the dotted paths of e refer to: {<<table, key>>}
ParentRefs(T, e) ==
  CASE T = "SubDomain" -> {<<"Domain", <<e.domain__name>> >>}
    [] T = "DomainRole" -> {<<"Domain", <<e.domain__name>> >>}
    [] T = "SubDomainRole" ->
         {<<"SubDomain", <<e.subdomain__name, e.subdomain__domain__name>> >>}
    [] T = "GitTree" ->
         {<<"SubDomain", <<e.subdomain__name, e.subdomain__domain__name>> >>}
    [] T = "GitTreeRole" -> {<<"GitTree", <<e.gittree__gitpath>> >>}
    [] OTHER -> {}

Keys(T, rows) == {NaturalKey(T, r) : r \in rows}

HasRow(st, T, key) == key \in Keys(T, st.tab[T])

\* some persisted child row or edge refers to the row key of table T
Referenced(st, T, key) ==
  \/ \E C \in Tables : \E r \in st.tab[C] :
       \E ref \in ParentRefs(C, r) : ref[1] = T /\ ref[2] = key
  \/ \E R \in Rels : \E e \in st.rel[R] :
       \/ R[1] = T /\ e[1] = key
       \/ R[2] = T /\ e[2] = key

\* the last entity of desired that has key k
LastOf(T, desired, k) ==
  desired[Max0({i \in DOMAIN desired : NaturalKey(T, desired[i]) = k})]

DesiredKeys(T, desired) == {NaturalKey(T, desired[i]) : i \in DOMAIN desired}

\* the desired rows, one per natural key
DesiredRows(T, desired) == {LastOf(T, desired, k) : k \in DesiredKeys(T, desired)}

Dangling(st, T, desired) ==
  \E i \in DOMAIN desired : \E ref \in ParentRefs(T, desired[i]) : ~HasRow(st, ref[1], ref[2])

\* sync_rows without the needs-update check: every desired row is written
sync_rows_rewrite(st, T, old, dkeys, rows) ==
  [error |-> FALSE,
   store |-> [st EXCEPT !.tab[T] = {r \in old : NaturalKey(T, r) \notin dkeys} \cup rows],
   keys |-> Keys(T, old) \ dkeys,
   writes |-> Cardinality(rows)]

\* steps 2-4 of sync_entity for the rows old of T, the desired keys dkeys and rows
sync_rows(st, T, old, dkeys, rows) ==
  [error |-> FALSE,
   store |-> [st EXCEPT !.tab[T] = {r \in old : NaturalKey(T, r) \notin dkeys} \cup rows],
   keys |-> Keys(T, old) \ dkeys,
   writes |-> Cardinality(rows \ old)]

\* [error, store, keys (the delete-candidates of the returned closure), writes]
sync_entity(st, desired, T) ==
  IF Dangling(st, T, desired)
  THEN [error |-> TRUE, store |-> st, keys |-> {}, writes |-> 0]
  ELSE sync_rows(st, T, st.tab[T], DesiredKeys(T, desired), DesiredRows(T, desired))

DanglingPair(st, pairs, A, B) ==
  \E i \in DOMAIN pairs :
    \/ ~HasRow(st, A, NaturalKey(A, pairs[i][1]))
    \/ ~HasRow(st, B, NaturalKey(B, pairs[i][2]))

DesiredEdges(pairs, A, B) ==
  {<<NaturalKey(A, pairs[i][1]), NaturalKey(B, pairs[i][2])>> : i \in DOMAIN pairs}

\* the edges of the relation after the sync: those of the owners of desired
\* edges are replaced, the others are left
EdgesAfter(old, desired) ==
  {e \in old : \A d \in desired : d[1] /= e[1]} \cup desired

sync_edges(st, R, old, new) ==
  [error |-> FALSE,
   store |-> [st EXCEPT !.rel[R] = new],
   writes |-> Cardinality(new \ old) + Cardinality(old \ new)]

\* [error, store, writes]
sync_nnr(st, pairs, A, B) ==
  IF DanglingPair(st, pairs, A, B) THEN [error |-> TRUE, store |-> st, writes |-> 0]
  ELSE sync_edges(st, <<A, B>>, st.rel[<<A, B>>],
                  EdgesAfter(st.rel[<<A, B>>], DesiredEdges(pairs, A, B)))

delete_rows(st, T, rows) ==
  IF \E r \in rows : Referenced(st, T, NaturalKey(T, r))
  THEN [error |-> TRUE, store |-> st, writes |-> 0]
  ELSE [error |-> FALSE,
        store |-> [st EXCEPT !.tab[T] = st.tab[T] \ rows],
        writes |-> Cardinality(rows)]

\* the closure returned by sync_entity: [error (rejected by the store), store, writes]
delete_closure(st, T, keys) ==
  delete_rows(st, T, {r \in st.tab[T] : NaturalKey(T, r) \in keys})

(***************************************************************************)
(* from_unicode as a sequence of steps, one per statement of lines 223-265.*)
(* A sync_entity step names the variable its closure is bound to ("" when  *)
(* the returned closure is discarded, line 244).                           *)
(***************************************************************************)
Step(op, a, b, c) == [op |-> op, a |-> a, b |-> b, c |-> c]

\* lines 224-225
parse_steps ==
  << Step("parse_blocks", "domain_str", "D", ""),
     Step("parse_blocks", "gittree_str", "T", "") >>

\* lines 228-240
transform_steps ==
  << Step("build_user_cache", "", "", ""),
     Step("transform_users", "", "", ""),
     Step("transform_domains", "", "", ""),
     Step("transform_trees", "", "", ""),
     Step("transform_parties", "", "", "") >>

\* lines 244-251
sync_entity_steps ==
  << Step("sync_entity", "users", "User", ""),
     Step("sync_entity", "domains", "Domain", "delete_domains"),
     Step("sync_entity", "subdomains", "SubDomain", "delete_subdomains"),
     Step("sync_entity", "domainroles", "DomainRole", "delete_domainroles"),
     Step("sync_entity", "subdomainroles", "SubDomainRole", "delete_subdomainroles"),
     Step("sync_entity", "trees", "GitTree", "delete_trees"),
     Step("sync_entity", "treeroles", "GitTreeRole", "delete_treeroles"),
     Step("sync_entity", "parties", "UserParty", "delete_partyroles") >>

\* lines 253-257
sync_nnr_steps ==
  << Step("sync_nnr", "domainrole_users", "DomainRole", "User"),
     Step("sync_nnr", "subdomainrole_users", "SubDomainRole", "User"),
     Step("sync_nnr", "tree_licenses", "GitTree", "License"),
     Step("sync_nnr", "treerole_users", "GitTreeRole", "User"),
     Step("sync_nnr", "party_users", "UserParty", "User") >>

\* the closures invoked parents first: delete_domains() moved to the top
delete_steps_parents_first ==
  << Step("delete", "", "", "delete_domains"),
     Step("delete", "", "", "delete_partyroles"),
     Step("delete", "", "", "delete_treeroles"),
     Step("delete", "", "", "delete_subdomainroles"),
     Step("delete", "", "", "delete_domainroles"),
     Step("delete", "", "", "delete_trees"),
     Step("delete", "", "", "delete_subdomains") >>

\* the call delete_trees() left out
delete_steps_no_trees ==
  << Step("delete", "", "", "delete_partyroles"),
     Step("delete", "", "", "delete_treeroles"),
     Step("delete", "", "", "delete_subdomainroles"),
     Step("delete", "", "", "delete_domainroles"),
     Step("delete", "", "", "delete_subdomains"),
     Step("delete", "", "", "delete_domains") >>

\* lines 259-265
delete_steps ==
  << Step("delete", "", "", "delete_partyroles"),
     Step("delete", "", "", "delete_treeroles"),
     Step("delete", "", "", "delete_subdomainroles"),
     Step("delete", "", "", "delete_domainroles"),
     Step("delete", "", "", "delete_trees"),
     Step("delete", "", "", "delete_subdomains"),
     Step("delete", "", "", "delete_domains") >>

\* the relations synced before the entities
from_unicode_nnr_first ==
  parse_steps \o transform_steps \o sync_nnr_steps \o sync_entity_steps \o delete_steps

\* the tree text parsed only when the loader is about to use the trees
from_unicode_late_parse ==
  SubSeq(parse_steps, 1, 1) \o transform_steps \o SubSeq(sync_entity_steps, 1, 5)
    \o SubSeq(parse_steps, 2, 2) \o SubSeq(sync_entity_steps, 6, 8)
    \o sync_nnr_steps \o delete_steps

from_unicode ==
  parse_steps \o transform_steps \o sync_entity_steps \o sync_nnr_steps \o delete_steps

ClosureVars ==
  {"delete_domains", "delete_subdomains", "delete_domainroles", "delete_subdomainroles",
   "delete_trees", "delete_treeroles", "delete_partyroles"}

(***************************************************************************)
(* Inputs: the two texts and the store the run starts from.                *)
(***************************************************************************)
Line(code, value) == [code |-> code, value |-> value]

alice == <<"Alice", " ", "<", "a", "@", "x.com", ">">>
alice2 == <<"alice", " ", "<", "A", "@", "X.COM", ">">>
bob == <<"<", "bob", "@", "linux", ".", "intel.com", ">">>
bad == <<"nobody">>

\* blocks of the domain text
DomainBlockTexts ==
  << << Line("D", <<"A">>), Line("M", alice), Line("M", bad) >>,
     << Line("D", <<"A", " ", "/", " ", "S">>), Line("N", <<"A">>),
        Line("R", bad), Line("R", alice2), Line("R", bob) >>,
     << Line("D", <<"A", "/", "S">>), Line("N", <<"A">>) >>,
     << Line("D", <<"A">>), Line("N", <<"A">>) >>,
     << Line("D", NONAME), Line("", <<>>), Line("O", <<"rest">>), Line("", <<"more">>) >>,
     << Line("D", <<"B">>), Line("X", <<"foo">>) >> >>

\* blocks of the tree text
TreeBlockTexts ==
  << << Line("T", <<"p">>), Line("D", <<"A", " ", "/", " ", "S">>),
        Line("L", <<"L1">>), Line("M", bob), Line("M", bad) >>,
     << Line("T", <<"p">>) >>,
     << Line("T", <<"q">>), Line("D", <<"A">>), Line("R", bad) >>,
     << Line("T", <<"q">>), Line("D", <<"A", "/", "S">>), Line("Z", <<"foo">>) >> >>

\* the texts made of at most n of the blocks, in the order of the list
RECURSIVE TextsOf(_, _, _)
TextsOf(blocks, from, n) ==
  {<<>>} \cup
    (IF n = 0 THEN {}
     ELSE UNION {{blocks[i] \o t : t \in TextsOf(blocks, i + 1, n - 1)} :
                   i \in from..Len(blocks)})

DomainTexts == TextsOf(DomainBlockTexts, 1, MaxDomainBlocks)

TreeTexts == TextsOf(TreeBlockTexts, 1, MaxTreeBlocks)

EmptyStore ==
  [tab |-> [T \in Tables |-> IF T = "License" THEN {[shortname |-> <<"L1">>]} ELSE {}],
   rel |-> [R \in Rels |-> {}]]

Tab(T, rows) == [tab |-> [X \in Tables |-> IF X = T THEN rows ELSE {}],
                 rel |-> [R \in Rels |-> {}]]

Rel(R, edges) == [tab |-> [X \in Tables |-> {}],
                  rel |-> [X \in Rels |-> IF X = R THEN edges ELSE {}]]

StoreUnion(s, t) ==
  [tab |-> [T \in Tables |-> s.tab[T] \cup t.tab[T]],
   rel |-> [R \in Rels |-> s.rel[R] \cup t.rel[R]]]

RECURSIVE StoreUnionAll(_)
StoreUnionAll(ss) ==
  IF ss = {} THEN EmptyStore
  ELSE LET s == CHOOSE x \in ss : TRUE IN StoreUnion(s, StoreUnionAll(ss \ {s}))

carol == [username |-> <<"c", "@", "samsung.com">>, email |-> <<"c", "@", "samsung.com">>,
          name |-> <<"Carol">>]

\* rows left by earlier imports and by other writers of the store; each
\* fragment holds the parents of its rows
StoreFragments ==
  { \* a domain with its subdomain and a role without users
    StoreUnionAll({
      Tab("Domain", {[name |-> <<"B">>]}),
      Tab("SubDomain", {[name |-> NONAME, domain__name |-> <<"B">>]}),
      Tab("DomainRole", {[role |-> "MAINTAINER", domain__name |-> <<"B">>,
                          name |-> rolename("MAINTAINER", <<"B">>)]})}),
    \* a user of a party
    StoreUnionAll({
      Tab("User", {carol}),
      Tab("UserParty", {[party |-> "SAMSUNG", name |-> <<"Samsung">>]}),
      Rel(<<"UserParty", "User">>, {<< <<"SAMSUNG">>, <<carol.email>> >>})}),
    \* a tree with a license and a role that has a user
    StoreUnionAll({
      Tab("Domain", {[name |-> NONAME]}),
      Tab("SubDomain", {[name |-> NONAME, domain__name |-> NONAME]}),
      Tab("GitTree", {[gitpath |-> <<"q">>, subdomain__name |-> NONAME,
                       subdomain__domain__name |-> NONAME]}),
      Tab("GitTreeRole", {[role |-> "REVIEWER", gittree__gitpath |-> <<"q">>,
                           name |-> rolename("REVIEWER", <<"q">>)]}),
      Tab("User", {carol}),
      Rel(<<"GitTreeRole", "User">>, {<< <<"REVIEWER", <<"q">> >>, <<carol.email>> >>}),
      Rel(<<"GitTree", "License">>, {<< <<<<"q">>>>, <<<<"L1">>>> >>})}),
    \* rows an import of other texts left: a tree under another subdomain,
    \* a user under another display name, an old party
    StoreUnionAll({
      Tab("Domain", {[name |-> NONAME], [name |-> <<"A">>]}),
      Tab("SubDomain", {[name |-> NONAME, domain__name |-> NONAME],
                        [name |-> NONAME, domain__name |-> <<"A">>]}),
      Tab("GitTree", {[gitpath |-> <<"p">>, subdomain__name |-> NONAME,
                       subdomain__domain__name |-> <<"A">>]}),
      Tab("User", {[username |-> <<"a", "@", "x.com">>, email |-> <<"a", "@", "x.com">>,
                    name |-> <<"Al">>]}),
      Tab("UserParty", {[party |-> "OLD", name |-> <<"Old">>]})}) }

InitialStores ==
  {StoreUnionAll(fs) : fs \in {x \in SUBSET StoreFragments : Cardinality(x) <= MaxFragments}}

(***************************************************************************)
(* State.  The locals of from_unicode keep their names; store is the       *)
(* persisted store.  History: run (1 or 2), store0 (the store the current  *)
(* run started from), writes (rows and edges the current run inserted,     *)
(* updated or deleted), trace (the steps executed by the current run),     *)
(* ucLog (the calls of the identity cache: <<"update", s>>, <<"all">>,     *)
(* <<"get", s>>).                                                          *)
(***************************************************************************)
VARIABLES pc, status, run, domain_str, gittree_str, domains_data, trees_data,
          uc, users, domains, subdomains, domainroles, subdomainroles,
          domainrole_users, subdomainrole_users, trees, tree_licenses,
          treeroles, treerole_users, parties, party_users, closures,
          store, store0, writes, trace, ucLog

inputs == <<domain_str, gittree_str>>

parsed == <<domains_data, trees_data>>

domain_lists == <<domains, subdomains, domainroles, subdomainroles,
                  domainrole_users, subdomainrole_users>>

tree_lists == <<trees, tree_licenses, treeroles, treerole_users>>

party_lists == <<parties, party_users>>

loader == <<closures, store, writes>>

vars == <<pc, status, run, inputs, parsed, uc, users, domain_lists, tree_lists,
          party_lists, loader, store0, trace, ucLog>>

NoClosure == [T \in ClosureVars |-> [set |-> FALSE, table |-> "", keys |-> {}]]

Locals0 ==
  /\ pc = 1
  /\ status = "running"
  /\ domains_data = <<>> /\ trees_data = <<>>
  /\ uc = UserCacheNew
  /\ users = <<>>
  /\ domains = <<>> /\ subdomains = <<>> /\ domainroles = <<>>
  /\ subdomainroles = <<>> /\ domainrole_users = <<>> /\ subdomainrole_users = <<>>
  /\ trees = <<>> /\ tree_licenses = <<>> /\ treeroles = <<>> /\ treerole_users = <<>>
  /\ parties = <<>> /\ party_users = <<>>
  /\ closures = NoClosure
  /\ writes = 0
  /\ trace = <<>>
  /\ ucLog = <<>>

Init ==
  /\ Locals0
  /\ run = 1
  /\ domain_str \in DomainTexts
  /\ gittree_str \in TreeTexts
  /\ store \in InitialStores
  /\ store0 = store

Running == status = "running" /\ pc \in DOMAIN from_unicode

step == from_unicode[pc]

\* the statement at pc has been executed
Advance ==
  /\ trace' = Append(trace, step)
  /\ pc' = pc + 1
  /\ status' = IF pc = Len(from_unicode) THEN "done" ELSE "running"

\* the statement at pc raised
Abort(kind) ==
  /\ trace' = Append(trace, step)
  /\ pc' = pc
  /\ status' = kind

ListOf(name) ==
  CASE name = "users" -> users
    [] name = "domains" -> domains
    [] name = "subdomains" -> subdomains
    [] name = "domainroles" -> domainroles
    [] name = "subdomainroles" -> subdomainroles
    [] name = "trees" -> trees
    [] name = "treeroles" -> treeroles
    [] name = "parties" -> parties
    [] name = "domainrole_users" -> domainrole_users
    [] name = "subdomainrole_users" -> subdomainrole_users
    [] name = "tree_licenses" -> tree_licenses
    [] name = "treerole_users" -> treerole_users
    [] name = "party_users" -> party_users

\* bind the result r of parse_blocks to the variable the step names
Parsed(r) ==
  IF r.error
  THEN /\ Abort("unrecognized field code")
       /\ UNCHANGED parsed
  ELSE /\ Advance
       /\ IF step.a = "domain_str"
          THEN domains_data' = r.blocks /\ UNCHANGED trees_data
          ELSE trees_data' = r.blocks /\ UNCHANGED domains_data

\* lines 224, 225
ParseBlocks ==
  /\ Running /\ step.op = "parse_blocks"
  /\ Parsed(parse_blocks(IF step.a = "domain_str" THEN domain_str ELSE gittree_str, step.b))
  /\ UNCHANGED <<run, inputs, uc, users, domain_lists, tree_lists, party_lists,
                 loader, store0, ucLog>>

Updates(us) == [i \in DOMAIN us |-> <<"update", us[i]>>]

\* line 228
BuildUserCache ==
  /\ Running /\ step.op = "build_user_cache"
  /\ uc' = build_user_cache(domains_data, trees_data)
  /\ ucLog' = ucLog \o Updates(build_user_cache_updates(domains_data, trees_data))
  /\ Advance
  /\ UNCHANGED <<run, inputs, parsed, users, domain_lists, tree_lists, party_lists,
                 loader, store0>>

\* line 229
TransformUsers ==
  /\ Running /\ step.op = "transform_users"
  /\ users' = transform_users(UserCache_all(uc))
  /\ ucLog' = Append(ucLog, <<"all">>)
  /\ Advance
  /\ UNCHANGED <<run, inputs, parsed, uc, domain_lists, tree_lists, party_lists,
                 loader, store0>>

Gets(lookups) == [i \in DOMAIN lookups |-> <<"get", lookups[i]>>]

\* the tuple assignment of lines 231-234
BindDomains(r) ==
  /\ domains' = r.domains
  /\ subdomains' = r.subdomains
  /\ domainroles' = r.domainroles
  /\ subdomainroles' = r.subdomainroles
  /\ domainrole_users' = r.domainrole_users
  /\ subdomainrole_users' = r.subdomainrole_users
  /\ ucLog' = ucLog \o Gets(r.lookups)

\* lines 231-234
TransformDomains ==
  /\ Running /\ step.op = "transform_domains"
  /\ BindDomains(transform_domains(domains_data, uc))
  /\ Advance
  /\ UNCHANGED <<run, inputs, parsed, uc, users, tree_lists, party_lists, loader, store0>>

\* the tuple assignment of lines 236-238
BindTrees(r) ==
  /\ trees' = r.trees
  /\ tree_licenses' = r.tree_licenses
  /\ treeroles' = r.treeroles
  /\ treerole_users' = r.treerole_users
  /\ ucLog' = ucLog \o Gets(r.lookups)

\* lines 236-238
TransformTrees ==
  /\ Running /\ step.op = "transform_trees"
  /\ BindTrees(transform_trees(trees_data, uc))
  /\ Advance
  /\ UNCHANGED <<run, inputs, parsed, uc, users, domain_lists, party_lists, loader, store0>>

BindParties(r) == parties' = r.parties /\ party_users' = r.party_users

\* line 240
TransformParties ==
  /\ Running /\ step.op = "transform_parties"
  /\ BindParties(transform_parties(users))
  /\ Advance
  /\ UNCHANGED <<run, inputs, parsed, uc, users, domain_lists, tree_lists, loader,
                 store0, ucLog>>

\* the store after a loader call that returned r, or the abort it raised
Loaded(r, kind) ==
  IF r.error
  THEN Abort(kind) /\ UNCHANGED <<store, writes>>
  ELSE /\ Advance
       /\ store' = r.store
       /\ writes' = writes + r.writes

Synced(r) ==
  /\ Loaded(r, "dangling reference")
  /\ closures' = IF r.error \/ step.c = "" THEN closures
                 ELSE [closures EXCEPT
                         ![step.c] = [set |-> TRUE, table |-> step.b, keys |-> r.keys]]

\* lines 244-251
SyncEntity ==
  /\ Running /\ step.op = "sync_entity"
  /\ Synced(sync_entity(store, ListOf(step.a), step.b))
  /\ UNCHANGED <<run, inputs, parsed, uc, users, domain_lists, tree_lists, party_lists,
                 store0, ucLog>>

\* lines 253-257
SyncNnr ==
  /\ Running /\ step.op = "sync_nnr"
  /\ Loaded(sync_nnr(store, ListOf(step.a), step.b, step.c), "dangling reference")
  /\ UNCHANGED <<run, inputs, parsed, uc, users, domain_lists, tree_lists, party_lists,
                 closures, store0, ucLog>>

\* lines 259-265
InvokeDelete ==
  /\ Running /\ step.op = "delete"
  /\ IF ~closures[step.c].set
     THEN Abort("unbound closure") /\ UNCHANGED <<store, writes>>
     ELSE Loaded(delete_closure(store, closures[step.c].table, closures[step.c].keys),
                 "rejected by the store")
  /\ UNCHANGED <<run, inputs, parsed, uc, users, domain_lists, tree_lists, party_lists,
                 closures, store0, ucLog>>

\* the caller imports the same two texts again
Rerun ==
  /\ status /= "running" /\ run = 1
  /\ run' = 2
  /\ store0' = store
  /\ pc' = 1
  /\ status' = "running"
  /\ domains_data' = <<>> /\ trees_data' = <<>>
  /\ uc' = UserCacheNew
  /\ users' = <<>>
  /\ domains' = <<>> /\ subdomains' = <<>> /\ domainroles' = <<>>
  /\ subdomainroles' = <<>> /\ domainrole_users' = <<>> /\ subdomainrole_users' = <<>>
  /\ trees' = <<>> /\ tree_licenses' = <<>> /\ treeroles' = <<>> /\ treerole_users' = <<>>
  /\ parties' = <<>> /\ party_users' = <<>>
  /\ closures' = NoClosure
  /\ writes' = 0
  /\ trace' = <<>>
  /\ ucLog' = <<>>
  /\ UNCHANGED <<inputs, store>>

Next ==
  \/ ParseBlocks
  \/ BuildUserCache
  \/ TransformUsers
  \/ TransformDomains
  \/ TransformTrees
  \/ TransformParties
  \/ SyncEntity
  \/ SyncNnr
  \/ InvokeDelete
  \/ Rerun

Spec == Init /\ [][Next]_vars

(***************************************************************************)
(* Properties.                                                             *)
(***************************************************************************)
\* positions of the trace where op was called
CallsOf(op) == {i \in DOMAIN trace : trace[i].op = op}

LoaderOps == {"sync_entity", "sync_nnr", "delete"}

TransformOps ==
  {"parse_blocks", "build_user_cache", "transform_users", "transform_domains",
   "transform_trees", "transform_parties"}

\* the tables the dotted paths of a table refer to
RefersTo(T) ==
  CASE T = "SubDomain" -> {"Domain"}
    [] T = "DomainRole" -> {"Domain"}
    [] T = "SubDomainRole" -> {"SubDomain"}
    [] T = "GitTree" -> {"SubDomain"}
    [] T = "GitTreeRole" -> {"GitTree"}
    [] OTHER -> {}

SyncedTables == Tables \ {"License"}

\* C1: the store operations of a run happen in phase order: every
\* sync_entity call comes after parsing, identity caching and all transforms,
\* a child table is synced after the tables it refers to, every sync_nnr call
\* comes after all sync_entity calls and every deletion closure is invoked
\* after all sync_nnr calls.
C1_PhaseOrder ==
  /\ \A j \in CallsOf("sync_entity") :
       /\ \A i \in DOMAIN trace : trace[i].op \in TransformOps => i < j
       /\ \E i \in 1..j : trace[i].op = "parse_blocks" /\ trace[i].a = "domain_str"
       /\ \E i \in 1..j : trace[i].op = "parse_blocks" /\ trace[i].a = "gittree_str"
       /\ \A op \in TransformOps \ {"parse_blocks"} : \E i \in 1..j : trace[i].op = op
       /\ \A P \in RefersTo(trace[j].b) :
            \E i \in 1..j : trace[i].op = "sync_entity" /\ trace[i].b = P
  /\ \A j \in CallsOf("sync_nnr") :
       /\ \A i \in CallsOf("sync_entity") : i < j
       /\ \A T \in SyncedTables : \E i \in 1..j : trace[i].op = "sync_entity" /\ trace[i].b = T
  /\ \A j \in CallsOf("delete") :
       /\ \A i \in CallsOf("sync_nnr") : i < j
       /\ \A R \in Rels :
            \E i \in 1..j : trace[i].op = "sync_nnr" /\ trace[i].b = R[1] /\ trace[i].c = R[2]

\* a run that made every call of the three phases
C1_Witness ==
  /\ status = "done" /\ run = 1
  /\ Cardinality(CallsOf("sync_entity")) = 8
  /\ Cardinality(CallsOf("sync_nnr")) = 5
  /\ Cardinality(CallsOf("delete")) = 7

\* the table whose rows the closure invoked at position i of the trace deletes
ClosureTable(i) == closures[trace[i].c].table

\* C2: the deletion closures are invoked in reverse dependency order: the
\* closure of a table is invoked before the closure of each table it refers to.
C2_DeleteOrder ==
  /\ \A i, j \in CallsOf("delete") :
       ClosureTable(i) \in RefersTo(ClosureTable(j)) => j < i
  /\ status = "done" =>
       \A C \in SyncedTables : \A P \in RefersTo(C) :
         \E i, j \in CallsOf("delete") : ClosureTable(j) = C /\ ClosureTable(i) = P

\* a finished run whose closures of a parent and of a child table had rows to delete
C2_Witness ==
  /\ status = "done"
  /\ closures["delete_domains"].keys /= {}
  /\ closures["delete_subdomains"].keys /= {}
  /\ closures["delete_domainroles"].keys /= {}

\* the (desired list, table) pairs of lines 244-251
SyncedLists ==
  {<<"users", "User">>, <<"domains", "Domain">>, <<"subdomains", "SubDomain">>,
   <<"domainroles", "DomainRole">>, <<"subdomainroles", "SubDomainRole">>,
   <<"trees", "GitTree">>, <<"treeroles", "GitTreeRole">>, <<"parties", "UserParty">>}

KeysEqual(p) == Keys(p[2], store.tab[p[2]]) = DesiredKeys(p[2], ListOf(p[1]))

\* C3 as stated: after a finished run the natural keys persisted in every
\* synced table, User included, are exactly those of its desired list.
C3_KeySetAllTables == status = "done" => \A p \in SyncedLists : KeysEqual(p)

\* C3 as amended: that holds of the seven tables whose closure from_unicode
\* invokes; the closure of User is discarded, and User holds at least the
\* desired keys.
C3_KeySet ==
  status = "done" =>
    /\ \A p \in SyncedLists \ {<<"users", "User">>} : KeysEqual(p)
    /\ DesiredKeys("User", users) \subseteq Keys("User", store.tab["User"])

\* a finished run that inserted rows, deleted rows and kept a user that is not desired
C3_Witness ==
  /\ status = "done"
  /\ closures["delete_trees"].keys /= {}
  /\ closures["delete_partyroles"].keys /= {}
  /\ Len(trees) > 0
  /\ ~KeysEqual(<<"users", "User">>)

\* C4: the second of two runs on the same texts changes nothing: it inserts,
\* updates and deletes no row or edge and the store stays what run 1 left.
C4_Idempotent == run = 2 => writes = 0 /\ store = store0

\* the second run has finished on a store that holds rows only an import creates
C4_Witness ==
  /\ run = 2 /\ status = "done"
  /\ store.tab["SubDomainRole"] /= {}
  /\ store.rel[<<"SubDomainRole", "User">>] /= {}
  /\ store.tab["GitTree"] /= {}

\* the persisted rows the closure bound to c is about to delete
Candidates(c) ==
  {r \in store.tab[closures[c].table] : NaturalKey(closures[c].table, r) \in closures[c].keys}

\* C5: when a deletion closure is invoked, no persisted child row and no
\* persisted edge refers to a row it deletes.
C5_NoReferenceAtDelete ==
  (Running /\ step.op = "delete" /\ closures[step.c].set) =>
    \A r \in Candidates(step.c) :
      ~Referenced(store, closures[step.c].table, NaturalKey(closures[step.c].table, r))

\* the transform layer has run
Transformed == \E i \in DOMAIN trace : trace[i].op = "transform_trees"

DomainBlocks == {domains_data[i] : i \in {j \in DOMAIN domains_data : "PARENT" \notin DOMAIN domains_data[j]}}

SubDomainBlocks == {domains_data[i] : i \in {j \in DOMAIN domains_data : "PARENT" \in DOMAIN domains_data[j]}}

TreeBlocks == Range(trees_data)

Resolvable(data, role) == {u \in Range(data[role]) : UserCache_get(uc, u) /= None}

Unresolvable(data, role) == {u \in Range(data[role]) : UserCache_get(uc, u) = None}

BlockRoles(data) == ROLES \cap DOMAIN data

\* C6: an identity string for which get returns the absence marker raises no
\* error and yields no role-user pair, while the role entity of its field and
\* the pairs of the other strings of the field are emitted.
C6_UnresolvedSkipped ==
  /\ status \notin {"running", "done"} => trace[Len(trace)].op \notin TransformOps \ {"parse_blocks"}
  /\ Transformed =>
       /\ \A p \in Range(domainrole_users) \cup Range(subdomainrole_users)
                     \cup Range(treerole_users) : p[2] /= None
       /\ \A data \in DomainBlocks : \A role \in BlockRoles(data) :
            /\ [role |-> role, domain__name |-> data["DOMAIN"],
                name |-> rolename(role, data["DOMAIN"])] \in Range(domainroles)
            /\ \A u \in Resolvable(data, role) :
                 << [role |-> role, domain__name |-> data["DOMAIN"]],
                    UserCache_get(uc, u) >> \in Range(domainrole_users)
       /\ \A data \in SubDomainBlocks : \A role \in BlockRoles(data) :
            /\ [role |-> role,
                subdomain__name |-> parse_name(data["DOMAIN"])[2],
                subdomain__domain__name |-> parse_name(data["DOMAIN"])[1],
                name |-> subrolename(role, parse_name(data["DOMAIN"])[1],
                                     parse_name(data["DOMAIN"])[2])]
                 \in Range(subdomainroles)
            /\ \A u \in Resolvable(data, role) :
                 << [role |-> role,
                     subdomain__name |-> parse_name(data["DOMAIN"])[2],
                     subdomain__domain__name |-> parse_name(data["DOMAIN"])[1]],
                    UserCache_get(uc, u) >> \in Range(subdomainrole_users)
       /\ \A data \in TreeBlocks : \A role \in BlockRoles(data) :
            /\ [role |-> role, gittree__gitpath |-> data["TREE PATH"],
                name |-> rolename(role, data["TREE PATH"])] \in Range(treeroles)
            /\ \A u \in Resolvable(data, role) :
                 << [role |-> role, gittree__gitpath |-> data["TREE PATH"]],
                    UserCache_get(uc, u) >> \in Range(treerole_users)

\* the transforms have run on a domain, a subdomain and a tree block whose
\* role fields hold an unresolvable string next to a resolvable one
C6_Witness ==
  /\ Transformed
  /\ \E data \in DomainBlocks : \E role \in BlockRoles(data) :
       Unresolvable(data, role) /= {} /\ Resolvable(data, role) /= {}
  /\ \E data \in SubDomainBlocks : \E role \in BlockRoles(data) :
       Unresolvable(data, role) /= {} /\ Resolvable(data, role) /= {}
  /\ \E data \in TreeBlocks : \E role \in BlockRoles(data) :
       Unresolvable(data, role) /= {} /\ Resolvable(data, role) /= {}

\* the text holds a line whose code is not mapped
Unmapped(text) == \E i \in DOMAIN text : text[i].code /= "" /\ text[i].code \notin DOMAIN MAPPING

\* C7: when parsing a text raises the unrecognized-field-code error, no
\* sync_entity, sync_nnr or deletion closure is executed and the store is
\* unchanged.
C7_ParseErrorAborts ==
  /\ (Unmapped(domain_str) \/ Unmapped(gittree_str)) =>
       /\ status /= "done"
       /\ \A i \in DOMAIN trace : trace[i].op \notin LoaderOps
       /\ store = store0 /\ writes = 0
  /\ status = "unrecognized field code" =>
       /\ \A i \in DOMAIN trace : trace[i].op \notin LoaderOps
       /\ store = store0 /\ writes = 0

\* the domain text parsed, the tree text raised the error
C7_Witness ==
  /\ status = "unrecognized field code"
  /\ Len(domains_data) > 0
  /\ step.a = "gittree_str"

\* C8: every update of the identity cache precedes the first get or all, and
\* every string the transforms look up with get was passed to update before.
C8_CacheReadOnly ==
  /\ \A i, j \in DOMAIN ucLog : (i < j /\ ucLog[j][1] = "update") => ucLog[i][1] = "update"
  /\ \A j \in DOMAIN ucLog :
       ucLog[j][1] = "get" => \E i \in 1..j : ucLog[i] = <<"update", ucLog[j][2]>>

\* updates, all() and lookups of strings of both texts have happened
C8_Witness ==
  /\ Transformed
  /\ \E i \in DOMAIN ucLog : ucLog[i] = <<"get", bad>>
  /\ \E i \in DOMAIN ucLog : ucLog[i] = <<"get", bob>>
  /\ \E i \in DOMAIN ucLog : ucLog[i] = <<"get", alice>>
  /\ \E i \in DOMAIN ucLog : ucLog[i] = <<"all">>
  /\ Len(trees_data) > 0 /\ Len(domains_data) > 0

DomainNames == {d.name : d \in Range(domains)}

SubDomainKeys == {<<sd.name, sd.domain__name>> : sd \in Range(subdomains)}

\* C9 as stated: every desired subdomain refers to a desired domain and
\* every desired tree to a desired subdomain.
C9_NoDanglingDesired ==
  Transformed =>
    /\ \A sd \in Range(subdomains) : sd.domain__name \in DomainNames
    /\ \A t \in Range(trees) :
         <<t.subdomain__name, t.subdomain__domain__name>> \in SubDomainKeys

\* C9 as amended: the Uncategorized subdomain of every desired domain is
\* desired, so a tree without a DOMAIN value (Uncategorized / Uncategorized)
\* and a tree whose DOMAIN value is the name of a desired domain refer to a
\* desired subdomain; a subdomain of a PARENT block refers to a desired
\* domain exactly when its domain part is Uncategorized or the DOMAIN of a
\* block without PARENT.
C9_UncategorizedDesired ==
  Transformed =>
    /\ \A d \in DomainNames : <<NONAME, d>> \in SubDomainKeys
    /\ \A data \in TreeBlocks :
         "DOMAIN" \notin DOMAIN data =>
           /\ [gitpath |-> data["TREE PATH"], subdomain__name |-> NONAME,
               subdomain__domain__name |-> NONAME] \in Range(trees)
           /\ <<NONAME, NONAME>> \in SubDomainKeys
    /\ \A data \in TreeBlocks :
         ("DOMAIN" \in DOMAIN data /\ data["DOMAIN"][1] \in DomainNames
            /\ Find(data["DOMAIN"][1], Sep) = 0) =>
           /\ [gitpath |-> data["TREE PATH"], subdomain__name |-> NONAME,
               subdomain__domain__name |-> data["DOMAIN"][1]] \in Range(trees)
           /\ <<NONAME, data["DOMAIN"][1]>> \in SubDomainKeys
    /\ \A data \in SubDomainBlocks :
         /\ [name |-> parse_name(data["DOMAIN"])[2],
             domain__name |-> parse_name(data["DOMAIN"])[1]] \in Range(subdomains)
         /\ parse_name(data["DOMAIN"])[1] \in DomainNames
              <=> \/ parse_name(data["DOMAIN"])[1] = NONAME
                  \/ \E b \in DomainBlocks : b["DOMAIN"] = parse_name(data["DOMAIN"])[1]

\* trees with and without DOMAIN and a subdomain block have been transformed
C9_Witness ==
  /\ Transformed
  /\ \E data \in TreeBlocks : "DOMAIN" \notin DOMAIN data
  /\ SubDomainBlocks /= {}
  /\ Len(domains) > 1

Distinct(T, list) ==
  \A i, j \in DOMAIN list : NaturalKey(T, list[i]) = NaturalKey(T, list[j]) => i = j

\* C10 as stated: for any blocks, no two desired domains share a name and
\* no two desired subdomains share (name, domain name).
C10_NoDuplicateKeys ==
  Transformed => Distinct("Domain", domains) /\ Distinct("SubDomain", subdomains)

\* the blocks without PARENT have distinct names other than Uncategorized
DistinctDomainBlocks ==
  /\ \A i, j \in DOMAIN domains_data :
       ("PARENT" \notin DOMAIN domains_data[i] /\ "PARENT" \notin DOMAIN domains_data[j]
          /\ domains_data[i]["DOMAIN"] = domains_data[j]["DOMAIN"]) => i = j
  /\ \A data \in DomainBlocks : data["DOMAIN"] /= NONAME

\* the PARENT blocks have distinct parsed names, none the Uncategorized
\* subdomain of a desired domain
DistinctSubDomainBlocks ==
  /\ \A i, j \in DOMAIN domains_data :
       ("PARENT" \in DOMAIN domains_data[i] /\ "PARENT" \in DOMAIN domains_data[j]
          /\ parse_name(domains_data[i]["DOMAIN"]) = parse_name(domains_data[j]["DOMAIN"]))
         => i = j
  /\ \A data \in SubDomainBlocks :
       parse_name(data["DOMAIN"])[2] = NONAME =>
         /\ parse_name(data["DOMAIN"])[1] /= NONAME
         /\ \A b \in DomainBlocks : b["DOMAIN"] /= parse_name(data["DOMAIN"])[1]

\* C10 as amended: the desired domains have distinct names when the blocks
\* without PARENT have distinct names other than Uncategorized, and the
\* desired subdomains then have distinct keys when the PARENT blocks have
\* distinct parsed names, none the Uncategorized subdomain of a desired domain.
C10_DistinctWhenBlocksDistinct ==
  Transformed =>
    /\ DistinctDomainBlocks => Distinct("Domain", domains)
    /\ (DistinctDomainBlocks /\ DistinctSubDomainBlocks) => Distinct("SubDomain", subdomains)

\* a domain block and a subdomain block of it, distinct, have been transformed
C10_Witness ==
  /\ Transformed
  /\ DistinctDomainBlocks /\ DistinctSubDomainBlocks
  /\ DomainBlocks /= {} /\ SubDomainBlocks /= {}
  /\ Len(subdomains) >= 3

====
